---- MODULE Spec2Model ----
(***************************************************************************)
(* Model of the Albert plugin "Arch Linux Packages" (src/__init__.py):     *)
(* Plugin.handleTriggerQuery, the two source adapters                      *)
(* ArchOfficialRepository.query and ArchUserRepository.query, and the pure *)
(* helpers they use (str.strip, re.compile, list.sort, highlight_query).   *)
(*                                                                         *)
(* Strings that the code compares, searches or compiles (the query string  *)
(* and the package names) are sequences of code points, so that `in`, the  *)
(* sort keys and re.compile are computed as Python computes them.  Strings *)
(* that the code only copies or concatenates are TLA+ strings.             *)
(***************************************************************************)
EXTENDS Integers, Sequences, FiniteSets, TLC

VARIABLES
    input,          \* query.string, as typed by the user
    query_str,      \* local query_str of handleTriggerQuery
    pc,             \* position of the controller thread in handleTriggerQuery
    tick,           \* number of completed iterations of the pacing loop
    isValid,        \* query.isValid, owned by the host
    invalidatedAt,  \* pc of the controller when the host invalidated the query
    requests,       \* HTTP requests issued so far, in order
    official,       \* future of ArchOfficialRepository.query
    aur,            \* future of ArchUserRepository.query
    sink            \* calls of query.add so far, in order

vars == <<input, query_str, pc, tick, isValid, invalidatedAt, requests,
          official, aur, sink>>

----------------------------------------------------------------------------
(* Bounds of the model *)

MaxLen == 2          \* longest input string
MaxEntries == 2      \* longest response in the adapter specification
MaxCtlEntries == 1   \* longest response in the controller specification
MaxPages == 2        \* largest page count the official endpoint declares

(* Program constants *)

PacingTicks == 50    \* range(50)

None == "None"

(* Code points: tab, space, '+', 'a', 'b' *)
Chr == [tab |-> 9, sp |-> 32, plus |-> 43, a |-> 97, b |-> 98]

\* a strip that removes spaces only, as strip(' ') would
WhitespaceSpaceOnly == {Chr.sp}

\* the ASCII characters str.strip() removes
Whitespace == (9..13) \cup (28..32)

InputAlphabet == {Chr.tab, Chr.sp, Chr.plus, Chr.a}

RECURSIVE StringsUpTo(_, _)
StringsUpTo(alphabet, n) ==
    IF n = 0 THEN {<<>>}
    ELSE LET shorter == StringsUpTo(alphabet, n - 1)
         IN  shorter \cup {Append(s, c) : s \in shorter, c \in alphabet}

Inputs == StringsUpTo(InputAlphabet, MaxLen)

----------------------------------------------------------------------------
(* Pure helpers *)

\* str.strip(): drop leading and trailing whitespace
RECURSIVE LStrip(_)
LStrip(s) ==
    IF s # <<>> /\ Head(s) \in Whitespace THEN LStrip(Tail(s)) ELSE s

RECURSIVE RStrip(_)
RStrip(s) ==
    IF s # <<>> /\ s[Len(s)] \in Whitespace
    THEN RStrip(SubSeq(s, 1, Len(s) - 1))
    ELSE s

Strip(s) == RStrip(LStrip(s))

\* `sub in s` on str: sub occurs in s as a contiguous run
Contains(s, sub) ==
    \E i \in 0..(Len(s) - Len(sub)) : SubSeq(s, i + 1, i + Len(sub)) = sub

\* str < str: lexicographic by code point, a proper prefix is smaller
RECURSIVE StrLess(_, _)
StrLess(s, t) ==
    IF t = <<>> THEN FALSE
    ELSE IF s = <<>> THEN TRUE
    ELSE IF Head(s) # Head(t) THEN Head(s) < Head(t)
    ELSE StrLess(Tail(s), Tail(t))

\* list.index(x): position (from 0) of the first x, ValueError if absent
IndexOf(list, x) ==
    IF \E i \in 1..Len(list) : list[i] = x
    THEN (CHOOSE i \in 1..Len(list) :
              list[i] = x /\ \A j \in 1..(i - 1) : list[j] # x) - 1
    ELSE -1

\* tuple < tuple for the sort keys: a key is a tuple of integers followed by
\* one str; the first differing element decides
KeyLess(k1, k2) ==
    LET n == Len(k1.ints)
        differ == {i \in 1..n : k1.ints[i] # k2.ints[i]}
    IN  IF differ # {}
        THEN LET i == CHOOSE d \in differ : \A e \in differ : d <= e
             IN  k1.ints[i] < k2.ints[i]
        ELSE StrLess(k1.str, k2.str)

\* list.sort(key=...) is stable: an element goes after every element whose
\* key is not greater than its own.  `keyed` holds <<key, element>> pairs.
RECURSIVE InsertStable(_, _)
InsertStable(sorted, x) ==
    IF sorted = <<>> THEN <<x>>
    ELSE IF KeyLess(x[1], sorted[Len(sorted)][1])
         THEN Append(InsertStable(SubSeq(sorted, 1, Len(sorted) - 1), x),
                     sorted[Len(sorted)])
         ELSE Append(sorted, x)

RECURSIVE SortKeyed(_)
SortKeyed(keyed) ==
    IF keyed = <<>> THEN <<>>
    ELSE InsertStable(SortKeyed(SubSeq(keyed, 1, Len(keyed) - 1)),
                      keyed[Len(keyed)])

----------------------------------------------------------------------------
(* re.compile(query_str, re.IGNORECASE) and Pattern.sub, on the input        *)
(* alphabet: '+' is the only metacharacter, every other character is a      *)
(* literal.  A compiled pattern is a sequence of items [ch, rep].           *)

\* the parser of re: a '+' repeats the item before it ("nothing to repeat"
\* when there is none), a second '+' makes the repeat possessive, a third is
\* "multiple repeat"
RECURSIVE ReParse(_, _, _)
ReParse(s, i, items) ==
    IF i > Len(s) THEN [ok |-> TRUE, items |-> items]
    ELSE IF s[i] # Chr.plus
         THEN ReParse(s, i + 1, Append(items, [ch |-> s[i], rep |-> "one"]))
    ELSE IF items = <<>> THEN [ok |-> FALSE, items |-> <<>>]
    ELSE LET last == items[Len(items)]
         IN  IF last.rep = "possessive" THEN [ok |-> FALSE, items |-> <<>>]
             ELSE ReParse(s, i + 1,
                     [items EXCEPT ![Len(items)].rep =
                         IF last.rep = "one" THEN "greedy" ELSE "possessive"])

ReCompile(s) == ReParse(s, 1, <<>>)

\* re.IGNORECASE: characters are compared after case folding
Fold(c) == IF c \in 65..90 THEN c + 32 ELSE c

\* number of consecutive characters of s from position i that match ch
RECURSIVE Run(_, _, _)
Run(s, i, ch) ==
    IF i <= Len(s) /\ Fold(s[i]) = Fold(ch) THEN 1 + Run(s, i + 1, ch) ELSE 0

\* the backtracking matcher: position after the match of items[k..] that
\* starts at position i of s, or 0 when there is none
RECURSIVE MatchEnd(_, _, _, _)
MatchEnd(items, k, s, i) ==
    IF k > Len(items) THEN i
    ELSE LET run == Run(s, i, items[k].ch)
             rep == items[k].rep
         IN  IF run = 0 THEN 0
             ELSE IF rep = "one" THEN MatchEnd(items, k + 1, s, i + 1)
             ELSE IF rep = "possessive" THEN MatchEnd(items, k + 1, s, i + run)
             ELSE LET fits == {n \in 1..run :
                                  MatchEnd(items, k + 1, s, i + n) # 0}
                  IN  IF fits = {} THEN 0
                      ELSE MatchEnd(items, k + 1, s,
                              i + CHOOSE n \in fits : \A m \in fits : m <= n)

\* the markup around a match: "<u>" and "</u>"
UOpen == <<60, 117, 62>>

UClose == <<60, 47, 117, 62>>

\* Pattern.sub from position i: leftmost non-overlapping matches are wrapped,
\* the other characters are copied
RECURSIVE SubFrom(_, _, _)
SubFrom(items, s, i) ==
    IF i > Len(s) THEN <<>>
    ELSE LET e == MatchEnd(items, 1, s, i)
         IN  IF e = 0 THEN <<s[i]>> \o SubFrom(items, s, i + 1)
             ELSE UOpen \o SubSeq(s, i, e - 1) \o UClose \o SubFrom(items, s, e)

highlight_query(query_pattern, name) == SubFrom(query_pattern, name, 1)

----------------------------------------------------------------------------
(* Items and actions of the host (albert.StandardItem, albert.Action) *)

md_name == "Arch Linux Packages"

ICON_URL == "file:icons/arch.svg"

\* self.id(), the identifier the host gives the plugin
PluginId == "arch_packages"

StandardItem(id, text, subtext, actions) ==
    [id |-> id, text |-> text, subtext |-> subtext,
     iconUrls |-> <<ICON_URL>>, actions |-> actions]

\* Action(id, text, callable): the callable opens `url`
Action(id, text, url) == [id |-> id, text |-> text, url |-> url]

\* datetime.strptime(flag_date, '%Y-%m-%dT%H:%M:%S.%fZ')
strptime(date_string) ==
    CASE date_string = "2024-01-02T03:04:05.000Z" ->
             [date |-> "2024-01-02", time |-> "03:04:05"]

\* datetime.fromtimestamp(OutOfDate), on a host whose local time zone is UTC;
\* the integer of the response is written in decimal
fromtimestamp(timestamp) ==
    CASE timestamp = "1704164645" ->
             [date |-> "2024-01-02", time |-> "03:04:05"]

\* to_local_time_str: strftime('%F %T'), on a host whose time zone is UTC
to_local_time_str(datetime_obj) ==
    datetime_obj.date \o " " \o datetime_obj.time

----------------------------------------------------------------------------
(* The responses of the two endpoints *)

\* package names: "a", "b", "a+", "ba", "aaa"
Names ==
    {<<Chr.a>>, <<Chr.b>>, <<Chr.a, Chr.plus>>, <<Chr.b, Chr.a>>,
     <<Chr.a, Chr.a, Chr.a>>}

\* the repositories the request asks for, as the endpoint spells them
OfficialRepos == {"core", "extra"}

\* ArchQueryEntry
OfficialEntries ==
    {[pkgname |-> n, repo |-> r, arch |-> "x86_64", pkgver |-> "1.0",
      pkgrel |-> "1", pkgdesc |-> "desc", url |-> "", flag_date |-> None,
      maintainers |-> <<>>] : n \in Names, r \in OfficialRepos}
    \cup
    {[pkgname |-> n, repo |-> r, arch |-> "any", pkgver |-> "2.0",
      pkgrel |-> "3", pkgdesc |-> "text", url |-> "https://example.org/",
      flag_date |-> "2024-01-02T03:04:05.000Z",
      maintainers |-> <<"dev">>] : n \in Names, r \in OfficialRepos}

\* AurQueryEntry
AurEntries ==
    {[Name |-> n, Version |-> "1.0-1", Description |-> "", URL |-> "",
      NumVotes |-> 0, OutOfDate |-> None, Maintainer |-> None] : n \in Names}
    \cup
    {[Name |-> n, Version |-> "2.0-3", Description |-> "text",
      URL |-> "https://example.org/", NumVotes |-> 7,
      OutOfDate |-> "1704164645", Maintainer |-> "dev"] : n \in Names}

RECURSIVE ListsUpTo(_, _)
ListsUpTo(elements, n) ==
    IF n = 0 THEN {<<>>}
    ELSE LET shorter == ListsUpTo(elements, n - 1)
         IN  shorter \cup {Append(l, e) : l \in shorter, e \in elements}

\* what request.urlopen and json.loads produce for the official endpoint: an
\* exception, or a page of results with the number of pages of the result set
OfficialOutcomes(entries, n) ==
    {[status |-> st, results |-> <<>>, num_pages |-> 0] :
        st \in {"TransportError", "DecodeError"}}
    \cup
    {[status |-> "ok", results |-> l, num_pages |-> np] :
        l \in ListsUpTo(entries, n), np \in 1..MaxPages}

AurErrors == {"Rate limit exceeded", "Too many package results."}

\* what request.urlopen and json.loads produce for the community endpoint
AurOutcomes(entries, n) ==
    {[status |-> st, type |-> "", results |-> <<>>, error |-> None] :
        st \in {"TransportError", "DecodeError"}}
    \cup
    {[status |-> "ok", type |-> "search", results |-> l, error |-> None] :
        l \in ListsUpTo(entries, n)}
    \cup
    {[status |-> "ok", type |-> "error", results |-> l, error |-> m] :
        l \in ListsUpTo(entries, 1), m \in AurErrors}

----------------------------------------------------------------------------
(* ArchOfficialRepository *)

\* the request of ArchOfficialRepository.query: its URL parameters
OfficialRequest(q) ==
    [src |-> "official",
     params |-> <<<<"repo", "Core">>, <<"repo", "Extra">>, <<"q", q>>>>]

\* ArchOfficialRepository.entry_to_item
ArchOfficialRepository_entry_to_item(entry, query_pattern) ==
    LET name == entry.pkgname
        subtext0 == entry.pkgdesc
        subtext1 ==
            IF entry.flag_date # None
            THEN "<font color=\"red\">[Out of date: "
                     \o to_local_time_str(strptime(entry.flag_date))
                     \o "]</font> " \o subtext0
            ELSE subtext0
        subtext2 ==
            IF entry.maintainers = <<>>
            THEN "<font color=\"red\">[Orphan]</font> " \o subtext1
            ELSE subtext1
        subtext ==
            "<font color=\"dimgray\">[" \o entry.repo \o "]</font> " \o subtext2
        url == [site |-> "https://archlinux.org/packages/",
                repo |-> entry.repo, arch |-> entry.arch, name |-> name]
        actions ==
            <<Action(<<md_name, url>>, "Open Arch repositories website", url)>>
            \o (IF entry.url # ""
                THEN <<Action(<<md_name, entry.url>>, "Open project website",
                              entry.url)>>
                ELSE <<>>)
    IN  StandardItem(PluginId,
                     [name |-> highlight_query(query_pattern, name),
                      version |-> entry.pkgver \o "-" \o entry.pkgrel],
                     subtext, actions)

repos_lower == <<"core", "extra">>

\* a sort key that leaves out the length of the name
OfficialKeyNoLength(entry) ==
    [ints |-> <<IndexOf(repos_lower, entry.repo)>>, str |-> entry.pkgname]

\* the key of results_json.sort in ArchOfficialRepository.query
OfficialKey(entry) ==
    [ints |-> <<IndexOf(repos_lower, entry.repo), Len(entry.pkgname)>>,
     str |-> entry.pkgname]

Undecorate(keyed) == [i \in 1..Len(keyed) |-> keyed[i][2]]

OfficialSort(results_json) ==
    Undecorate(SortKeyed([i \in 1..Len(results_json) |->
                    <<OfficialKey(results_json[i]), results_json[i]>>]))

\* the loop of ArchOfficialRepository.query over the sorted entries
RECURSIVE OfficialItems(_, _, _)
OfficialItems(results_json, q, query_pattern) ==
    IF results_json = <<>> THEN <<>>
    ELSE IF ~Contains(Head(results_json).pkgname, q)
         THEN OfficialItems(Tail(results_json), q, query_pattern)
         ELSE <<ArchOfficialRepository_entry_to_item(Head(results_json), query_pattern)>>
                  \o OfficialItems(Tail(results_json), q, query_pattern)

Returned(data, items) ==
    [state |-> "ok", exc |-> None, data |-> data, items |-> items]

Raised(data, exc) ==
    [state |-> "raised", exc |-> exc, data |-> data, items |-> <<>>]

\* ArchOfficialRepository.query after the request: the future it completes
ArchOfficialRepository_query(q, data) ==
    IF data.status # "ok" THEN Raised(data, data.status)
    ELSE IF \E i \in 1..Len(data.results) :
                IndexOf(repos_lower, data.results[i].repo) = -1
         THEN Raised(data, "ValueError")
    ELSE LET results_json == OfficialSort(data.results)
             compiled == ReCompile(q)
         IN  IF ~compiled.ok THEN Raised(data, "re.error")
             ELSE Returned(data,
                           OfficialItems(results_json, q, compiled.items))

----------------------------------------------------------------------------
(* ArchUserRepository *)

\* the request of ArchUserRepository.query: its URL parameters
AurRequest(q) ==
    [src |-> "aur",
     params |-> <<<<"v", "5">>, <<"type", "search">>, <<"by", "name">>,
                  <<"arg", q>>>>]

\* ArchUserRepository.entry_to_item
ArchUserRepository_entry_to_item(entry, query_pattern) ==
    LET name == entry.Name
        subtext0 ==
            IF entry.Description # "" THEN entry.Description
            ELSE "[No description]"
        subtext1 ==
            IF entry.OutOfDate # None
            THEN "<font color=\"red\">[Out of date: "
                     \o to_local_time_str(fromtimestamp(entry.OutOfDate))
                     \o "]</font> " \o subtext0
            ELSE subtext0
        subtext2 ==
            IF entry.Maintainer = None
            THEN "<font color=\"red\">[Orphan]</font> " \o subtext1
            ELSE subtext1
        subtext == "<font color=\"dimgray\">[AUR]</font> " \o subtext2
        url == [site |-> "https://aur.archlinux.org/packages/", name |-> name]
        actions ==
            <<Action(<<md_name, url>>, "Open AUR website", url)>>
            \o (IF entry.URL # ""
                THEN <<Action(<<md_name, entry.URL>>, "Open project website",
                              entry.URL)>>
                ELSE <<>>)
    IN  StandardItem(PluginId,
                     [name |-> highlight_query(query_pattern, name),
                      version |-> entry.Version, votes |-> entry.NumVotes],
                     subtext, actions)

\* the key of results_json.sort in ArchUserRepository.query
AurKey(entry) == [ints |-> <<Len(entry.Name)>>, str |-> entry.Name]

AurSort(results_json) ==
    Undecorate(SortKeyed([i \in 1..Len(results_json) |->
                    <<AurKey(results_json[i]), results_json[i]>>]))

\* a query that does not look at the type of the response
ArchUserRepository_query_no_error_branch(q, data) ==
    IF data.status # "ok" THEN Raised(data, data.status)
    ELSE LET results_json == AurSort(data.results)
             compiled == ReCompile(q)
         IN  IF ~compiled.ok THEN Raised(data, "re.error")
             ELSE Returned(data,
                           [i \in 1..Len(results_json) |->
                               ArchUserRepository_entry_to_item(results_json[i], compiled.items)])

\* ArchUserRepository.query after the request: the future it completes
ArchUserRepository_query(q, data) ==
    IF data.status # "ok" THEN Raised(data, data.status)
    ELSE IF data.type = "error"
         THEN Returned(data,
                       <<StandardItem(PluginId, "Error", data.error, <<>>)>>)
    ELSE LET results_json == AurSort(data.results)
             compiled == ReCompile(q)
         IN  IF ~compiled.ok THEN Raised(data, "re.error")
             ELSE Returned(data,
                           [i \in 1..Len(results_json) |->
                               ArchUserRepository_entry_to_item(results_json[i], compiled.items)])

----------------------------------------------------------------------------
(* Plugin.handleTriggerQuery *)

NoFuture == [state |-> "none", exc |-> None, data |-> None, items |-> <<>>]

Submitted == [NoFuture EXCEPT !.state = "pending"]

Running == [NoFuture EXCEPT !.state = "running"]

Completed(future) == future.state \in {"ok", "raised"}

\* the static item of an empty query
HelpItem ==
    StandardItem(PluginId, md_name,
        "Enter a query to search Arch Linux and AUR packages",
        <<Action(<<md_name, "open_arch_repos">>,
                 "Open Arch repositories website",
                 "https://archlinux.org/packages/"),
          Action(<<md_name, "open_aur">>, "Open AUR website",
                 "https://aur.archlinux.org/packages/")>>)

\* query.add(items), called on `thread`
Add(thread, items) == Append(sink, [thread |-> thread, items |-> items])

\* the responses the endpoints give in the controller specification
CtlOfficialEntries ==
    {e \in OfficialEntries :
        e.repo = "extra" /\ e.url = "" /\ Len(e.pkgname) = 1}

CtlAurEntries == {e \in AurEntries : e.URL # "" /\ Len(e.Name) = 1}

CtlOfficialOutcomes == OfficialOutcomes(CtlOfficialEntries, MaxCtlEntries)

CtlAurOutcomes == AurOutcomes(CtlAurEntries, MaxCtlEntries)

Init ==
    /\ input \in Inputs
    /\ query_str = <<>>
    /\ pc = "start"
    /\ tick = 0
    /\ isValid = TRUE
    /\ invalidatedAt = None
    /\ requests = <<>>
    /\ official = NoFuture
    /\ aur = NoFuture
    /\ sink = <<>>

\* the host supersedes the query; a query never becomes valid again
Invalidate ==
    /\ isValid
    /\ pc \notin {"done", "raised"}
    /\ isValid' = FALSE
    /\ invalidatedAt' = pc
    /\ UNCHANGED <<input, query_str, pc, tick, requests, official, aur, sink>>

\* strip the input; an empty query adds the help item and returns
Start ==
    /\ pc = "start"
    /\ query_str' = Strip(input)
    /\ IF query_str' = <<>>
       THEN /\ sink' = Add("controller", <<HelpItem>>)
            /\ pc' = "done"
       ELSE /\ sink' = sink
            /\ pc' = "pacing"
    /\ UNCHANGED <<input, tick, isValid, invalidatedAt, requests, official, aur>>

\* a pacing loop that sleeps without looking at query.isValid
PacingTickNoCheck ==
    /\ pc = "pacing"
    /\ tick' = tick + 1
    /\ pc' = IF tick' = PacingTicks THEN "submit_official" ELSE "pacing"
    /\ UNCHANGED <<input, query_str, isValid, invalidatedAt, requests,
                   official, aur, sink>>

\* one iteration of the pacing loop: sleep 10 ms, then look at query.isValid
PacingTick ==
    /\ pc = "pacing"
    /\ tick' = tick + 1
    /\ pc' = IF ~isValid THEN "done"
             ELSE IF tick' = PacingTicks THEN "submit_official"
             ELSE "pacing"
    /\ UNCHANGED <<input, query_str, isValid, invalidatedAt, requests,
                   official, aur, sink>>

\* executor.submit(ArchOfficialRepository.query, ...)
SubmitOfficial ==
    /\ pc = "submit_official"
    /\ official' = Submitted
    /\ pc' = "submit_aur"
    /\ UNCHANGED <<input, query_str, tick, isValid, invalidatedAt, requests,
                   aur, sink>>

\* executor.submit(ArchUserRepository.query, ...)
SubmitAur ==
    /\ pc = "submit_aur"
    /\ aur' = Submitted
    /\ pc' = "wait"
    /\ UNCHANGED <<input, query_str, tick, isValid, invalidatedAt, requests,
                   official, sink>>

\* worker thread of the official adapter: request.urlopen sends the request
OfficialSend ==
    /\ official.state = "pending"
    /\ requests' = Append(requests, OfficialRequest(query_str))
    /\ official' = Running
    /\ UNCHANGED <<input, query_str, pc, tick, isValid, invalidatedAt, aur, sink>>

\* worker thread of the official adapter: the response arrives (or the
\* transport fails) and the rest of ArchOfficialRepository.query runs
OfficialRespond(outcomes) ==
    /\ official.state = "running"
    /\ \E data \in outcomes : official' = ArchOfficialRepository_query(query_str, data)
    /\ UNCHANGED <<input, query_str, pc, tick, isValid, invalidatedAt,
                   requests, aur, sink>>

\* worker thread of the community adapter: request.urlopen sends the request
AurSend ==
    /\ aur.state = "pending"
    /\ requests' = Append(requests, AurRequest(query_str))
    /\ aur' = Running
    /\ UNCHANGED <<input, query_str, pc, tick, isValid, invalidatedAt,
                   official, sink>>

\* worker thread of the community adapter: the response arrives (or the
\* transport fails) and the rest of ArchUserRepository.query runs
AurRespond(outcomes) ==
    /\ aur.state = "running"
    /\ \E data \in outcomes : aur' = ArchUserRepository_query(query_str, data)
    /\ UNCHANGED <<input, query_str, pc, tick, isValid, invalidatedAt,
                   requests, official, sink>>

\* concurrent.futures.wait returns once both futures are done; future.result()
\* re-raises the exception of a failed future, otherwise the items of both
\* futures are added in one call
WaitAndAdd ==
    /\ pc = "wait"
    /\ Completed(official)
    /\ Completed(aur)
    /\ IF official.state = "raised" \/ aur.state = "raised"
       THEN /\ pc' = "raised"
            /\ sink' = sink
       ELSE /\ pc' = "done"
            /\ sink' = Add("controller", official.items \o aur.items)
    /\ UNCHANGED <<input, query_str, tick, isValid, invalidatedAt, requests,
                   official, aur>>

Next ==
    \/ Invalidate
    \/ Start
    \/ PacingTick
    \/ SubmitOfficial
    \/ SubmitAur
    \/ OfficialSend
    \/ OfficialRespond(CtlOfficialOutcomes)
    \/ AurSend
    \/ AurRespond(CtlAurOutcomes)
    \/ WaitAndAdd

Spec == Init /\ [][Next]_vars

----------------------------------------------------------------------------
(* The adapters on their own: handleTriggerQuery has submitted both tasks,   *)
(* both requests are out and one of the two responses, an empty one, has    *)
(* already been handled; the other adapter receives any response.           *)

EmptyOfficialPage == [status |-> "ok", results |-> <<>>, num_pages |-> 1]

EmptyAurSearch ==
    [status |-> "ok", type |-> "search", results |-> <<>>, error |-> None]

AdapterInit ==
    /\ input \in {i \in Inputs : Strip(i) # <<>>}
    /\ query_str = Strip(input)
    /\ pc = "wait"
    /\ tick = PacingTicks
    /\ isValid = TRUE
    /\ invalidatedAt = None
    /\ requests = <<OfficialRequest(query_str), AurRequest(query_str)>>
    /\ \/ /\ official = Running
          /\ aur = ArchUserRepository_query(query_str, EmptyAurSearch)
       \/ /\ official = ArchOfficialRepository_query(query_str, EmptyOfficialPage)
          /\ aur = Running
    /\ sink = <<>>

AdapterNext ==
    \/ OfficialRespond(OfficialOutcomes(OfficialEntries, MaxEntries))
    \/ AurRespond(AurOutcomes(AurEntries, MaxEntries))

SpecAdapters == AdapterInit /\ [][AdapterNext]_vars

----------------------------------------------------------------------------
(* Properties *)

Returns == pc \in {"done", "raised"}

BlankChars == {Chr.tab, Chr.sp}

IsBlank(s) == \A i \in 1..Len(s) : s[i] \in BlankChars

OfficialRequests == SelectSeq(requests, LAMBDA r : r.src = "official")

\* the name and the repository an item was made from, read off the URL of
\* its first action
ItemName(item) == item.actions[1].url.name

ItemRepo(item) == item.actions[1].url.repo

RepoRank(repo) == CASE repo = "core" -> 0 [] repo = "extra" -> 1

Ascending(keys) ==
    \A i \in 1..Len(keys) : \A j \in (i + 1)..Len(keys) :
        ~KeyLess(keys[j], keys[i])

\* C1: when one adapter fails with a transport or decode error and the other
\* returns, the sink receives exactly the items of the adapter that returned.
C1_FailureIsolated ==
    (Returns /\ Completed(official) /\ Completed(aur)) =>
        /\ (/\ official.exc \in {"TransportError", "DecodeError"}
            /\ aur.state = "ok")
           => sink = <<[thread |-> "controller", items |-> aur.items]>>
        /\ (/\ aur.exc \in {"TransportError", "DecodeError"}
            /\ official.state = "ok")
           => sink = <<[thread |-> "controller", items |-> official.items]>>

\* C2: a query invalidated during the pacing wait leads to no request, no
\* submitted task and no item; the handler is still pacing or has returned.
C2_InvalidatedWhilePacing ==
    invalidatedAt = "pacing" =>
        /\ requests = <<>>
        /\ sink = <<>>
        /\ official.state = "none"
        /\ aur.state = "none"
        /\ pc \in {"pacing", "done"}

C2_Witness ==
    invalidatedAt = "pacing" /\ pc = "done" /\ tick = PacingTicks

\* C3: once the query is invalid, nothing is added to its output any more.
C3_NoAddAfterInvalidation == [][~isValid => sink' = sink]_vars

\* C4: an empty or whitespace-only input yields exactly the help item with
\* its two actions, without pacing and without a request, and returns.
C4_BlankInputShortCircuits ==
    (IsBlank(input) /\ pc # "start") =>
        /\ pc = "done"
        /\ tick = 0
        /\ requests = <<>>
        /\ official.state = "none"
        /\ aur.state = "none"
        /\ Len(sink) = 1
        /\ Len(sink[1].items) = 1
        /\ Len(sink[1].items[1].actions) = 2
        /\ sink[1].items[1].actions[1].url = "https://archlinux.org/packages/"
        /\ sink[1].items[1].actions[2].url
               = "https://aur.archlinux.org/packages/"

C4_Witness ==
    /\ input # <<>>
    /\ IsBlank(input)
    /\ Chr.tab \in {input[i] : i \in 1..Len(input)}
    /\ pc = "done"

\* C5: for a non-empty query no adapter fails in the construction of the
\* match pattern.
C5_PatternConstructionTotal ==
    query_str # <<>> =>
        /\ official.exc # "re.error"
        /\ aur.exc # "re.error"

\* C6: the official adapter returns one item per response entry whose pkgname
\* contains the query string, and only items of such entries.
C6_NameFilterExact ==
    (Completed(official) /\ official.data.status = "ok") =>
        LET results == official.data.results
            matching == {i \in 1..Len(results) :
                            Contains(results[i].pkgname, query_str)}
        IN  /\ Len(official.items) = Cardinality(matching)
            /\ \A k \in 1..Len(official.items) :
                   /\ Contains(ItemName(official.items[k]), query_str)
                   /\ \E i \in matching :
                          /\ results[i].pkgname = ItemName(official.items[k])
                          /\ results[i].repo = ItemRepo(official.items[k])

\* C7: a community response of type "error" with message m yields exactly one
\* item, with subtext m and no action, whatever entries the response holds.
C7_UpstreamErrorItem ==
    (Completed(aur) /\ aur.data.status = "ok" /\ aur.data.type = "error") =>
        /\ aur.state = "ok"
        /\ Len(aur.items) = 1
        /\ aur.items[1].subtext = aur.data.error
        /\ aur.items[1].actions = <<>>

C7_Witness ==
    /\ aur.state = "ok"
    /\ aur.data.type = "error"
    /\ aur.data.results # <<>>
    /\ aur.items[1].subtext = "Rate limit exceeded"

\* C8: the items of the official adapter ascend in (repo rank, name length,
\* name), those of the community adapter in (name length, name), and sorting
\* a sorted response again changes nothing.
C8_ResultsSorted ==
    /\ official.state = "ok" =>
           /\ Ascending([k \in 1..Len(official.items) |->
                  [ints |-> <<RepoRank(ItemRepo(official.items[k])),
                              Len(ItemName(official.items[k]))>>,
                   str |-> ItemName(official.items[k])]])
           /\ OfficialSort(OfficialSort(official.data.results))
                  = OfficialSort(official.data.results)
    /\ (aur.state = "ok" /\ aur.data.type = "search") =>
           /\ Ascending([k \in 1..Len(aur.items) |->
                  [ints |-> <<Len(ItemName(aur.items[k]))>>,
                   str |-> ItemName(aur.items[k])]])
           /\ AurSort(AurSort(aur.data.results)) = AurSort(aur.data.results)

\* two official items in an order the name length decides against the
\* lexicographic order, out of a response that was not sorted
C8_Witness ==
    /\ official.state = "ok"
    /\ Len(official.items) = 2
    /\ ItemRepo(official.items[1]) = ItemRepo(official.items[2])
    /\ Len(ItemName(official.items[1])) < Len(ItemName(official.items[2]))
    /\ StrLess(ItemName(official.items[2]), ItemName(official.items[1]))
    /\ official.data.results # OfficialSort(official.data.results)

\* C9: for a non-empty query that stays valid the sink is written by the
\* controller only, exactly once, after both tasks completed, with the
\* official items before the community items.
C9_SingleOrderedEmission ==
    (query_str # <<>> /\ isValid) =>
        /\ \A k \in 1..Len(sink) : sink[k].thread = "controller"
        /\ sink # <<>> => (Completed(official) /\ Completed(aur))
        /\ Returns =>
               sink = <<[thread |-> "controller",
                         items |-> official.items \o aur.items]>>

\* C10: when the first official response declares N pages, the adapter has
\* requested the pages 1..N in this order, each once, when it returns.
C10_AllPagesRequested ==
    official.state = "ok" =>
        LET page(r) ==
                IF \E k \in 1..Len(r.params) : r.params[k][1] = "page"
                THEN (CHOOSE pr \in {r.params[k] : k \in 1..Len(r.params)} :
                          pr[1] = "page")[2]
                ELSE 1
        IN  [k \in 1..Len(OfficialRequests) |-> page(OfficialRequests[k])]
                = [k \in 1..official.data.num_pages |-> k]

====
